---- MODULE Spec2Model ----
(***************************************************************************)
(* A model of src/main.py: run_scan and the helpers it calls.              *)
(*                                                                         *)
(* run_scan is a single sequential loop.  Every call that leaves the       *)
(* process (the universe GET, the history fetch, the market-cap lookup,    *)
(* the two Telegram sends) and every time.sleep is appended to `log`, so   *)
(* the order of the side effects of one run can be read off the state.     *)
(* The outcome of each external call is an input, chosen with \E.          *)
(* print() calls are not modelled.  Prices are integers (tenths of a       *)
(* cent); the thresholds are compared after scaling, which agrees with the *)
(* float comparison of the code on every input drawn here.                 *)
(***************************************************************************)
EXTENDS Integers, Sequences, FiniteSets, TLC

\* ------------------------------------------------------------------ bounds

\* Largest number of table rows get_sp500_tickers parses in a run.
MaxTickers == 2

\* ------------------------------------------------------- program constants

SMA_WINDOW == 150
ATR_WINDOW == 14
MIN_BARS == 150
LOOKBACK == 6
ALERT_PERMILLE == 50
SLEEP_SECONDS == 1

\* os.environ.get of a variable that is not set.
None == "<None>"

VARIABLES
    TELEGRAM_TOKEN,  \* module global, line 14
    CHAT_ID,         \* module global, line 15
    pc,              \* position of run_scan
    tickers,         \* the list get_sp500_tickers returned
    retrieval,       \* how the universe retrieval ended: "ok", "request_error", "parse_error"
    i,               \* 1-based position of the loop of line 157 (enumerate's i is i - 1)
    alerts_count,    \* line 148 / 200
    scanned,         \* scanned[k]: what the k-th iteration met (history and call outcomes)
    log              \* the external calls and sleeps of this run, in order

vars == <<TELEGRAM_TOKEN, CHAT_ID, pc, tickers, retrieval, i, alerts_count, scanned, log>>

\* ----------------------------------------------------------------- helpers

Abs(x) == IF x < 0 THEN -x ELSE x

Max2(a, b) == IF a >= b THEN a ELSE b

\* Python truthiness of an environment value: None and "" are falsy.
Truthy(v) == v /= None /\ v /= ""

\* line 139: if not TELEGRAM_TOKEN or not CHAT_ID
ConfigMissingBothOnly == ~Truthy(TELEGRAM_TOKEN) /\ ~Truthy(CHAT_ID)

ConfigMissing == ~Truthy(TELEGRAM_TOKEN) \/ ~Truthy(CHAT_ID)

\* One entry of the log.
Event(op, ticker, res, n, text) ==
    [op |-> op, ticker |-> ticker, res |-> res, n |-> n, text |-> text]

\* ------------------------------------------------------- get_sp500_tickers

\* The first-column cells of the table rows after the header, as characters.
TableRows ==
    << <<"M", "M", "M">>,
       <<"B", "R", "K", ".", "B">>,
       <<"B", "F", ".", "B">>,
       <<"A", "O", "S">> >>

\* line 48: ticker.replace('.', '-')
Replace(t) == [k \in 1..Len(t) |-> IF t[k] = "." THEN "-" ELSE t[k]]

\* lines 45-49: the list built from the first n rows.
ParseTickers(n) == [k \in 1..n |-> Replace(TableRows[k])]

GetSp500TickersKeepsPartial(outcome, n) ==
    IF outcome = "ok" THEN ParseTickers(n)
    ELSE IF outcome = "parse_error" THEN ParseTickers(1)
    ELSE <<>>

\* lines 33-55: the value returned for each way the retrieval can end.
GetSp500Tickers(outcome, n) ==
    IF outcome = "ok" THEN ParseTickers(n) ELSE <<>>

\* ------------------------------------------------------ the price history

\* What yf.Ticker(ticker).history returns, reduced to what run_scan reads:
\* res "raise" when the call raises; bars = len(df); nan when every Close is
\* NaN; close, sma, prev = Close.iloc[-1], SMA_150.iloc[-1], SMA_150.iloc[-6]
\* of the rows that survive dropna.  rsi is the 14-bar RSI of the last bar: the
\* code never computes or reads it, it is carried so that statements about it
\* can be written down.
History(res, bars, nan, close, sma, prev, rsi) ==
    [res |-> res, bars |-> bars, nan |-> nan,
     close |-> close, sma |-> sma, prev |-> prev, rsi |-> rsi]

Quote(bars, close, sma, prev, rsi) == History("ok", bars, FALSE, close, sma, prev, rsi)

Histories ==
    { History("raise", 0, FALSE, 0, 0, 0, 0),       \* the fetch raises
      History("ok", 0, FALSE, 0, 0, 0, 0),          \* empty frame
      History("ok", 149, FALSE, 0, 0, 0, 0),        \* one bar short
      History("ok", 155, TRUE, 0, 0, 0, 0),         \* nothing survives dropna
      Quote(154, 1000, 1000, 1000, 40),             \* 5 valid rows
      Quote(155, 1000, 1000, 1006, 40),             \* on the average, falling
      Quote(155, 1000, 1000, 1000, 60),             \* on the average, RSI 60
      Quote(155, 975, 1000, 994, 20),               \* 2.5 % below, rising
      Quote(300, 950, 1000, 1000, 45),              \* 5 % below
      Quote(300, 949, 1000, 1000, 20) }             \* 5.1 % below

\* lines 169-179: rows left by dropna(subset=['SMA_150', 'ATR']).  SMA_150 is
\* NaN on the first SMA_WINDOW - 1 rows; TR is defined on row 0 (max skips the
\* NaN of shift(1)), so ATR is NaN on the first ATR_WINDOW - 1 rows.
RowsAfterDropna(h) ==
    IF h.nan THEN 0 ELSE Max2(0, h.bars - Max2(SMA_WINDOW, ATR_WINDOW) + 1)

\* lines 190-195
Trend(h) ==
    IF h.sma * 1000 > h.prev * 1005 THEN "Up"
    ELSE IF h.sma * 1000 < h.prev * 995 THEN "Down"
    ELSE "Flat"

\* line 198, in thousandths: dist_pct <= p / 1000
DistWithin(h, p) == Abs(h.close - h.sma) * 1000 <= p * h.sma

AlertConditionStrict(h) == Abs(h.close - h.sma) * 1000 < ALERT_PERMILLE * h.sma

\* line 199: if dist_pct <= 0.05
AlertCondition(h) == DistWithin(h, ALERT_PERMILLE)

\* lines 162-199: how far the iteration gets on history h.
Analyse(h) ==
    IF h.res = "raise" THEN "raise"                        \* line 164 raises
    ELSE IF h.bars = 0 \/ h.bars < MIN_BARS THEN "continue" \* lines 165-166
    ELSE IF RowsAfterDropna(h) = 0 THEN "continue"         \* lines 180-181
    ELSE IF RowsAfterDropna(h) < LOOKBACK THEN "raise"     \* line 186: IndexError
    ELSE IF AlertCondition(h) THEN "alert"                 \* line 199
    ELSE "no_alert"

\* ------------------------------------------------------------ get_market_cap

CapOutcome(res, value) == [res |-> res, value |-> value]

NoCall == CapOutcome("n/a", 0)

\* ticker_obj.info.get('marketCap'): raises, gives None, or gives a number.
CapOutcomes ==
    { CapOutcome("raise", 0), CapOutcome("none", 0), CapOutcome("ok", 1200000000) }

Label(unit, hundredths) == [unit |-> unit, hundredths |-> hundredths]

\* lines 90-102: the label; a scaled value keeps two decimals.
GetMarketCap(c) ==
    IF c.res = "raise" \/ c.res = "none" THEN Label("N/A", 0)
    ELSE IF c.value >= 1000000000
        THEN Label("B", (c.value + 5000000) \div 10000000)
    ELSE IF c.value >= 1000000
        THEN Label("M", (c.value * 100 + 500000) \div 1000000)
    ELSE Label("", c.value * 100)

\* -------------------------------------------------------- one loop iteration

\* What one iteration meets: the history, and the outcome of each later call
\* ("n/a" for a call the iteration does not reach).
Input(h, c, render, send) == [hist |-> h, cap |-> c, render |-> render, send |-> send]

Inputs ==
    UNION { IF Analyse(h) = "alert"
              THEN { Input(h, c, "raise", "n/a") : c \in CapOutcomes }
                   \cup { Input(h, c, "ok", s) : c \in CapOutcomes, s \in {"ok", "failed", "raised"} }
              ELSE { Input(h, NoCall, "n/a", "n/a") }
            : h \in Histories }

\* line 200: the iteration increments alerts_count.
Counted(x) == Analyse(x.hist) = "alert"

\* line 214: plot_chart is reached and returns.
Rendered(x) == Counted(x) /\ x.render = "ok"

\* The exception the body of the try raises, "none" when it runs to its end.
Raised(x) ==
    IF Analyse(x.hist) = "raise"
        THEN (IF x.hist.res = "raise" THEN "HistoryError" ELSE "IndexError")
    ELSE IF Counted(x) /\ x.render = "raise" THEN "RenderError"
    ELSE IF Rendered(x) /\ x.send = "raised" THEN "SendError"
    ELSE "none"

CaughtIndexErrorOnly(e) == e = "IndexError"

\* line 218: except Exception
Caught(e) == TRUE

\* lines 204-211: the parts of the caption that are not numbers.
AlertMessage(x) == [trend |-> Trend(x.hist), cap |-> GetMarketCap(x.cap)]

SendPhotoWithRetry(t, x) ==
    IF x.send = "ok"
        THEN << Event("sendPhoto", t, x.send, 0, AlertMessage(x)) >>
        ELSE << Event("sendPhoto", t, x.send, 0, AlertMessage(x)),
                Event("sendPhoto", t, x.send, 0, AlertMessage(x)) >>

\* lines 73-88 and 215: one POST; x.send is "ok", "failed" (a RequestException,
\* caught, None returned) or "raised" (any other exception, which propagates).
SendPhoto(t, x) == << Event("sendPhoto", t, x.send, 0, AlertMessage(x)) >>

\* line 216: time.sleep(1), reached only when line 215 returns.
SleepAfterSend(x) ==
    IF x.send = "raised" THEN <<>> ELSE << Event("sleep", <<>>, "ok", SLEEP_SECONDS, <<>>) >>

HistoryCall(t, x) == << Event("history", t, x.hist.res, x.hist.bars, <<>>) >>

InfoCall(t, x) == << Event("info", t, x.cap.res, 0, <<>>) >>

IterationEventsSendFirst(t, x) ==
    IF Counted(x)
        THEN (IF x.render = "ok" THEN SendPhoto(t, x) \o SleepAfterSend(x) ELSE <<>>)
             \o HistoryCall(t, x) \o InfoCall(t, x)
        ELSE HistoryCall(t, x)

\* lines 162-216: the calls of one iteration, in order.
IterationEvents(t, x) ==
    HistoryCall(t, x)
    \o (IF Counted(x)
          THEN InfoCall(t, x)
               \o (IF x.render = "ok" THEN SendPhoto(t, x) \o SleepAfterSend(x) ELSE <<>>)
          ELSE <<>>)

TickerAtReversed(k) == tickers[Len(tickers) + 1 - k]

\* line 157: for i, ticker in enumerate(tickers)
TickerAt(k) == tickers[k]

\* --------------------------------------------------------------- text sends

SendOutcomes == {"ok", "failed", "raised"}

\* lines 57-71: one POST of a text; n is the count the summary reports.
SendMessage(kind, n, res) == << Event("sendMessage", <<>>, res, n, <<kind>>) >>

SummaryOnlyIfAlerts(n, res) == IF n > 0 THEN SendMessage("summary", n, res) ELSE <<>>

\* lines 222-223
Summary(n, res) == SendMessage("summary", n, res)

\* ------------------------------------------------------------------ run_scan

EnvValues(set) == {None, "", set}

Init ==
    /\ TELEGRAM_TOKEN \in EnvValues("123:abc")
    /\ CHAT_ID \in EnvValues("42")
    /\ pc = "check_config"
    /\ tickers = <<>>
    /\ retrieval = "none"
    /\ i = 1
    /\ alerts_count = 0
    /\ scanned = <<>>
    /\ log = <<>>

\* lines 139-141
CheckConfig ==
    /\ pc = "check_config"
    /\ pc' = IF ConfigMissing THEN "done" ELSE "get_tickers"
    /\ UNCHANGED <<TELEGRAM_TOKEN, CHAT_ID, tickers, retrieval, i, alerts_count, scanned, log>>

\* line 143
GetTickers ==
    /\ pc = "get_tickers"
    /\ \E outcome \in {"ok", "request_error", "parse_error"} :
       \E n \in 0..MaxTickers :
          /\ (outcome /= "ok" => n = 0)
          /\ retrieval' = outcome
          /\ tickers' = GetSp500Tickers(outcome, n)
          /\ log' = log \o << Event("get_universe", <<>>, outcome, n, <<>>) >>
    /\ pc' = "check_tickers"
    /\ UNCHANGED <<TELEGRAM_TOKEN, CHAT_ID, i, alerts_count, scanned>>

\* lines 144-148
CheckTickers ==
    /\ pc = "check_tickers"
    /\ IF tickers = <<>>
         THEN \E res \in SendOutcomes :
                /\ log' = log \o SendMessage("failure", 0, res)
                /\ pc' = IF res = "raised" THEN "crashed" ELSE "done"
                /\ UNCHANGED alerts_count
         ELSE /\ log' = log
              /\ pc' = "scan"
              /\ alerts_count' = 0
    /\ UNCHANGED <<TELEGRAM_TOKEN, CHAT_ID, tickers, retrieval, i, scanned>>

\* lines 157-220: one iteration of the loop
ScanTicker ==
    /\ pc = "scan"
    /\ i <= Len(tickers)
    /\ \E x \in Inputs :
          /\ log' = log \o IterationEvents(TickerAt(i), x)
          /\ alerts_count' = alerts_count + (IF Counted(x) THEN 1 ELSE 0)
          /\ scanned' = Append(scanned, x)
          /\ IF Raised(x) /= "none" /\ ~Caught(Raised(x))
               THEN pc' = "crashed" /\ i' = i
               ELSE pc' = "scan" /\ i' = i + 1
    /\ UNCHANGED <<TELEGRAM_TOKEN, CHAT_ID, tickers, retrieval>>

\* lines 222-224
Finish ==
    /\ pc = "scan"
    /\ i > Len(tickers)
    /\ \E res \in SendOutcomes :
          /\ log' = log \o Summary(alerts_count, res)
          /\ pc' = IF res = "raised" THEN "crashed" ELSE "done"
    /\ UNCHANGED <<TELEGRAM_TOKEN, CHAT_ID, tickers, retrieval, i, alerts_count, scanned>>

Next == CheckConfig \/ GetTickers \/ CheckTickers \/ ScanTicker \/ Finish

Spec == Init /\ [][Next]_vars

\* ---------------------------------------------------- reading the log back

Terminal == pc \in {"done", "crashed"}

ConfigPresent == TELEGRAM_TOKEN \notin {None, ""} /\ CHAT_ID \notin {None, ""}

PhotoPos == {p \in 1..Len(log) : log[p].op = "sendPhoto"}

TextPos(kind) == {p \in 1..Len(log) : log[p].op = "sendMessage" /\ log[p].text = <<kind>>}

SendPos == {p \in 1..Len(log) : log[p].op \in {"sendPhoto", "sendMessage"}}

HistoryPos == {p \in 1..Len(log) : log[p].op = "history"}

\* Position in the universe of a ticker of the list (the rows are distinct).
TickerPos(t) == CHOOSE k \in 1..Len(tickers) : tickers[k] = t

DispatchedFor(k) == \E p \in PhotoPos : log[p].ticker = tickers[k]

\* The iteration of tickers[k] entered the branch of line 199 (the market-cap
\* lookup of line 202 is its first call).
AlertBranchTaken(k) == \E p \in 1..Len(log) : log[p].op = "info" /\ log[p].ticker = tickers[k]

AttemptedFor(k) == \E p \in HistoryPos : log[p].ticker = tickers[k]

\* The history was fetched and leaves at least 6 valid indicator rows.
SixValidRows(h) == h.res = "ok" /\ ~h.nan /\ h.bars - 149 >= 6

Rsi(p) == scanned[TickerPos(log[p].ticker)].hist.rsi

\* ------------------------------------------------------------------- claims

C4_SymbolFailureNeverAborts ==
    /\ pc = "scan" => Len(scanned) = i - 1
    /\ \A k \in 1..Len(scanned) : AttemptedFor(k)
    /\ (Terminal /\ tickers /= <<>>) => \A k \in 1..Len(tickers) : AttemptedFor(k)
    /\ pc = "crashed" =>
          (log[Len(log)].op = "sendMessage" /\ log[Len(log)].res = "raised")

\* C4 witness: the first symbol's analysis raised and the second was scanned
\* and dispatched, and the run returned.
C4_Witness ==
    /\ pc = "done"
    /\ Len(scanned) = 2
    /\ scanned[1].hist.bars = 154
    /\ DispatchedFor(2)

\* C5 as stated: on a failed retrieval exactly one failure text and nothing
\* else, and the failure is distinguishable from an empty universe that was
\* retrieved successfully.
C5_Original ==
    /\ (retrieval \in {"request_error", "parse_error"} /\ Terminal) =>
          (Cardinality(SendPos) = 1 /\ Cardinality(TextPos("failure")) = 1 /\ HistoryPos = {})
    /\ retrieval = "ok" =>
          (tickers /= GetSp500Tickers("request_error", 0) /\ TextPos("failure") = {})

\* C5 amended: a failed retrieval reaches run_scan as the empty list, the same
\* value a successful retrieval of a table without rows gives; in both cases
\* run_scan sends exactly one failure text, no image and no summary, and
\* analyses no symbol.
C5_EmptyListMeansFailure ==
    /\ retrieval \in {"request_error", "parse_error"} => tickers = <<>>
    /\ (retrieval /= "none" /\ tickers = <<>> /\ Terminal) =>
          /\ Cardinality(SendPos) = 1
          /\ Cardinality(TextPos("failure")) = 1
          /\ HistoryPos = {} /\ scanned = <<>>
    /\ (retrieval /= "none" /\ tickers = <<>>) => (HistoryPos = {} /\ PhotoPos = {})

\* C5 witness: the retrieval failed and the run ended after the failure text.
C5_Witness ==
    /\ retrieval = "request_error"
    /\ pc = "done"
    /\ TextPos("failure") /= {}

\* C6: with the configuration present and a non-empty universe, exactly one
\* summary text is sent, after the last image, however many symbols or image
\* sends failed.
C6_OneSummaryAfterLastImage ==
    /\ (Terminal /\ ConfigPresent /\ tickers /= <<>>) =>
          /\ Cardinality(TextPos("summary")) = 1
          /\ TextPos("summary") = {Len(log)}
          /\ TextPos("failure") = {}
    /\ ~Terminal => TextPos("summary") = {}

\* C6 witness: a run with a failed symbol and a failed image send ended with
\* its summary.
C6_Witness ==
    /\ pc = "done"
    /\ Len(scanned) = 2
    /\ Raised(scanned[1]) = "HistoryError"
    /\ scanned[2].send = "failed"
    /\ log[Len(log)].text = <<"summary">>
    /\ log[Len(log)].n = 1

\* C7: with the token or the destination missing, run_scan makes no call at all.
C7_NoActivityWithoutConfig ==
    (TELEGRAM_TOKEN \in {None, ""} \/ CHAT_ID \in {None, ""}) =>
        (log = <<>> /\ pc \in {"check_config", "done"} /\ scanned = <<>>)

\* C7 witness: only the destination is missing and the run has returned.
C7_Witness ==
    /\ pc = "done"
    /\ TELEGRAM_TOKEN = "123:abc"
    /\ CHAT_ID = None
    /\ log = <<>>

\* C8: an image send is never retried, and a failed or raising image send
\* stops neither the later dispatches nor the summary.
C8_NoRetryNoAbort ==
    /\ \A k \in 1..Len(tickers) :
          Cardinality({p \in PhotoPos : log[p].ticker = tickers[k]}) <= 1
    /\ \A p \in PhotoPos : log[p].res /= "ok" =>
          /\ pc = "crashed" => log[Len(log)].op = "sendMessage"
          /\ pc = "scan" => i > TickerPos(log[p].ticker)
          /\ Terminal =>
                /\ Len(scanned) = Len(tickers)
                /\ TextPos("summary") /= {}
                /\ \A k \in 1..Len(scanned) :
                      (AlertBranchTaken(k) /\ scanned[k].render = "ok") => DispatchedFor(k)

\* C8 witness: the first image send raised, the second symbol was
\* dispatched all the same, and the summary was sent.
C8_Witness ==
    /\ pc = "done"
    /\ Len(scanned) = 2
    /\ scanned[1].send = "raised"
    /\ DispatchedFor(1) /\ DispatchedFor(2)
    /\ TextPos("summary") /= {}

\* C9 as stated: between any two consecutive sends to the channel a delay
\* of at least one second is executed.
C9_DelayBetweenSends ==
    \A p, q \in SendPos :
        (p < q /\ \A r \in SendPos : ~(p < r /\ r < q)) =>
            \E s \in (p + 1)..(q - 1) : log[s].op = "sleep" /\ log[s].n >= 1

\* C10 as stated: alerts_count equals the number of image dispatches
\* attempted so far, and the summary reports that number.
C10_CountEqualsDispatches ==
    /\ alerts_count = Cardinality(PhotoPos)
    /\ \A p \in TextPos("summary") : log[p].n = Cardinality(PhotoPos)

====
